---- MODULE Spec2Model ----
(***************************************************************************)
(* vue-router-hooks: src/index.js.  The exported function walks the list   *)
(* of matched route components and their `components` mappings and, per    *)
(* requested hook name, collects deferred calls (promiseFunctions) and the *)
(* traversal keys it has seen (keys).                                      *)
(*                                                                         *)
(* The call is modelled as a state machine whose position is the callback  *)
(* of hooks.forEach (line 11) that runs next; the JavaScript call stack of *)
(* recursive() is the variable `stack`.  After the call has returned, the  *)
(* caller may invoke the returned thunks or call the function again.       *)
(***************************************************************************)
EXTENDS Integers, Sequences, FiniteSets, TLC

\* ------------------------------------------------------------------ bounds
MaxHooks == 2          \* longest `hooks` array
MaxRoots == 2          \* longest `matchedComponents` array
MaxInvocations == 1    \* thunk invocations by the caller after one call
MaxDepth == 8          \* cap on nested activations of recursive()
MaxEntries == 2        \* most entries of a `components` object

\* ------------------------------------------------------------- input space
HookNames == {"beforeRouteResolve", "beforeRouteResolveServer"}
Comps == {"A", "B", "C"}
RootCandidates == {"A", "B"}
ChildKeys == {"b", "c"}
\* component.name of a component that declares no name
Undefined == "<undefined>"
Names == {"a", "b", "c", Undefined}
\* typeof component[hook]: a function, some other value, or no such property
PropKinds == {"function", "other", "absent"}
Contexts == {[store |-> "store1", route |-> "route1"]}

SeqsUpTo(S, n) == UNION {[1..k -> S] : k \in 0..n}

Range(s) == {s[i] : i \in DOMAIN s}

\* the sequences with the same elements as s, each as often as in s
Rearrangements(s) ==
    {t \in [DOMAIN s -> Range(s)] :
        \A x \in Range(s) :
            Cardinality({i \in DOMAIN s : s[i] = x}) = Cardinality({i \in DOMAIN t : t[i] = x})}

VARIABLES
    objects,            \* the component objects: name, hook properties, components
    matchedComponents,  \* argument: the root components, in order
    hooks,              \* argument: the requested hook names, in order
    store, route,       \* arguments, forwarded to the hooks
    hookCache,          \* line 7: hook name -> [promiseFunctions, keys]
    pc,                 \* "entry" | "walk" | "returned"
    rootIndex,          \* line 27: how many roots matchedComponents.map has started
    stack,              \* activation records of recursive(), innermost last
    origin,             \* history: per hook and thunk, the visit that pushed it
    descents,           \* history: calls of recursive() made at line 22 in this call
    calls,              \* history: hook implementations called since this call began
    invocations,        \* history: thunks the caller invoked since this call returned
    previous            \* history: hooks and result of the preceding call

vars == <<objects, matchedComponents, hooks, store, route, hookCache, pc, rootIndex,
          stack, origin, descents, calls, invocations, previous>>

inputs == <<objects, matchedComponents, store, route>>

\* ---------------------------------------------------------------- helpers

\* Array.prototype.indexOf with strict equality: 0-based index or -1
IndexOf(seq, x) ==
    IF \E i \in DOMAIN seq : seq[i] = x
    THEN (CHOOSE i \in DOMAIN seq : seq[i] = x /\ \A j \in 1..(i-1) : seq[j] # x) - 1
    ELSE -1

NewHookCacheAllNames(hs) ==
    [h \in HookNames |-> [promiseFunctions |-> <<>>, keys |-> <<>>]]

\* line 8: one fresh record per requested hook name (a repeated name overwrites)
NewHookCache(hs) ==
    [h \in Range(hs) |-> [promiseFunctions |-> <<>>, keys |-> <<>>]]

VisitedNever(cache, key) == FALSE

VisitedLast(cache, key) ==
    cache.keys # <<>> /\ cache.keys[Len(cache.keys)] = key

\* line 13: cache.keys.indexOf(key) !== -1
Visited(cache, key) == IndexOf(cache.keys, key) # -1

IsTruthy(component, hook) == objects[component].props[hook] # "absent"

\* line 16: typeof component[hook] === 'function'
IsCallable(component, hook) == objects[component].props[hook] = "function"

\* line 18: the arrow function closes over component, hook, store and route
Thunk(component, hook) ==
    [component |-> component, hook |-> hook, store |-> store, route |-> route]

\* line 18, when the caller runs the thunk: component[hook]({ store, route })
CallOf(thunk) ==
    [component |-> thunk.component, hook |-> thunk.hook,
     store |-> thunk.store, route |-> thunk.route]

CallsOnPushEager(component, hook) == <<CallOf(Thunk(component, hook))>>

\* line 18: creating the arrow function calls no hook implementation
CallsOnPush(component, hook) == <<>>

\* line 21: if (component.components)
HasComponents(component) == objects[component].hasComponents

\* line 22: Object.keys(component.components), as <<key, child>> in iteration order
Entries(component) == objects[component].components

\* line 27: the traversal key of a root is component.name
RootKey(component) == objects[component].name

ChildName(entry) == objects[entry[2]].name

\* line 22: the traversal key of a child is its key in the parent's mapping
ChildKey(entry) == entry[1]

\* the hook names for which `key` is already in cache.keys
StaleFor(key) == {h \in DOMAIN hookCache : Visited(hookCache[h], key)}

\* an activation of recursive(component, key): hi is the position of hooks.forEach,
\* ci the position of Object.keys(...).forEach (0: not started).  History: path is
\* the chain of positions that led here, stale the hook names for which this
\* visit or an enclosing one was reached with a key already visited
Frame(component, key, path, stale) ==
    [component |-> component, key |-> key, path |-> path, stale |-> stale,
     hi |-> 1, ci |-> 0]

Top == stack[Len(stack)]

ReplaceTop(f) == [stack EXCEPT ![Len(stack)] = f]

\* lines 22-25, control only: where execution stands next.  An activation whose
\* hooks.forEach is done returns to its caller; a callback whose
\* Object.keys(...).forEach is done ends, and hooks.forEach goes to the next hook.
\* What is left on top is an activation about to run a callback (ci = 0) or
\* about to call recursive() for its next child (ci >= 1).
RECURSIVE Continue(_, _)
Continue(st, hs) ==
    IF st = <<>> THEN st
    ELSE LET f == st[Len(st)]
         IN  IF f.hi > Len(hs)
             THEN Continue(SubSeq(st, 1, Len(st) - 1), hs)
             ELSE IF f.ci > Len(Entries(f.component))
             THEN Continue([st EXCEPT ![Len(st)] = [f EXCEPT !.hi = f.hi + 1, !.ci = 0]], hs)
             ELSE st

\* ------------------------------------------------------------ the inputs

\* a `components` object: each key once, in Object.keys order
Mappings(children, n) ==
    {m \in SeqsUpTo(ChildKeys \X children, n) :
        \A i, j \in DOMAIN m : i # j => m[i][1] # m[j][1]}

NoComponents == [has |-> FALSE, entries |-> <<>>]

WithComponents(ms) == {[has |-> TRUE, entries |-> m] : m \in ms}

Graph(names, props, maps) ==
    [c \in Comps |->
        [name |-> names[c], props |-> props[c],
         hasComponents |-> maps[c].has, components |-> maps[c].entries]]

PlainNames == [c \in Comps |-> CASE c = "A" -> "a" [] c = "B" -> "b" [] OTHER -> "c"]

AllFunctions == [c \in Comps |-> [h \in HookNames |-> "function"]]

\* A has up to MaxEntries children among B and C, or is its own child; B has one
\* child at most, which may be A again; C is a leaf
Shapes ==
    {[c \in Comps |-> CASE c = "A" -> a [] c = "B" -> b [] OTHER -> NoComponents] :
        a \in {NoComponents} \cup WithComponents(Mappings({"B", "C"}, MaxEntries))
                \cup WithComponents(Mappings({"A"}, 1)),
        b \in {NoComponents} \cup WithComponents(Mappings({"A", "C"}, 1) \ {<<>>})}

\* component names: A and B (the root candidates) with or without a name, and
\* possibly the same one
NameChoices ==
    {[c \in Comps |-> CASE c = "A" -> a [] c = "B" -> b [] OTHER -> "c"] :
        a \in {"a", Undefined}, b \in {"a", "b", Undefined}}

\* hook properties: every hook implemented everywhere, none anywhere, or a
\* single property that is missing or not a function
PropChoices ==
    {AllFunctions, [c \in Comps |-> [h \in HookNames |-> "absent"]]}
    \cup {[AllFunctions EXCEPT ![c][h] = k] :
            c \in Comps, h \in HookNames, k \in PropKinds \ {"function"}}

Chain ==
    [c \in Comps |-> CASE c = "A" -> [has |-> TRUE, entries |-> <<<<"b", "B">>>>]
                       [] c = "B" -> [has |-> TRUE, entries |-> <<<<"c", "C">>>>]
                       [] OTHER -> NoComponents]

Fork ==
    [c \in Comps |-> CASE c = "A" -> [has |-> TRUE,
                                      entries |-> <<<<"b", "B">>, <<"c", "C">>>>]
                       [] OTHER -> NoComponents]

\* every shape with plain names and all hooks implemented, a chain with every
\* choice of names and hook properties, a fork with every choice of hook properties
ObjectGraphs ==
    {Graph(PlainNames, AllFunctions, m) : m \in Shapes}
    \cup {Graph(n, p, Chain) : n \in NameChoices, p \in PropChoices}
    \cup {Graph(PlainNames, p, Fork) : p \in PropChoices}

Init ==
    /\ objects \in ObjectGraphs
    /\ matchedComponents \in SeqsUpTo(RootCandidates, MaxRoots)
    /\ hooks \in SeqsUpTo(HookNames, MaxHooks)
    /\ \E c \in Contexts : store = c.store /\ route = c.route
    /\ hookCache = <<>>
    /\ pc = "entry"
    /\ rootIndex = 0
    /\ stack = <<>>
    /\ origin = <<>>
    /\ descents = 0
    /\ calls = <<>>
    /\ invocations = 0
    /\ previous = [hooks |-> <<>>, result |-> <<>>, valid |-> FALSE]

\* ------------------------------------------------------------ the program

\* lines 7-8: const hookCache = {}; hooks.forEach(hook => hookCache[hook] = ...)
InitCache ==
    /\ pc = "entry"
    /\ hookCache' = NewHookCache(hooks)
    /\ origin' = [h \in Range(hooks) |-> <<>>]
    /\ pc' = "walk"
    /\ UNCHANGED <<inputs, hooks, rootIndex, stack, descents, calls, invocations,
                   previous>>

\* line 27: matchedComponents.map calls recursive(component, component.name)
CallRoot ==
    /\ pc = "walk"
    /\ stack = <<>>
    /\ rootIndex < Len(matchedComponents)
    /\ rootIndex' = rootIndex + 1
    /\ LET component == matchedComponents[rootIndex + 1]
       IN  stack' = Continue(<<Frame(component, RootKey(component), <<rootIndex + 1>>,
                                      StaleFor(RootKey(component)))>>, hooks)
    /\ UNCHANGED <<inputs, hooks, hookCache, pc, origin, descents, calls, invocations,
                   previous>>

\* lines 11-21: one callback of hooks.forEach, up to the first recursive() call
HookCallback ==
    /\ pc = "walk"
    /\ stack # <<>>
    /\ Top.hi <= Len(hooks)
    /\ Top.ci = 0
    /\ LET f == Top
           hook == hooks[f.hi]
           cache == hookCache[hook]
       IN  IF Visited(cache, f.key)
           THEN \* line 13: return from this callback only
                /\ stack' = Continue(ReplaceTop([f EXCEPT !.hi = f.hi + 1]), hooks)
                /\ UNCHANGED <<hookCache, origin, calls>>
           ELSE /\ hookCache' =
                     [hookCache EXCEPT ![hook] =
                        [keys |-> Append(cache.keys, f.key),
                         promiseFunctions |->
                            IF IsCallable(f.component, hook)
                            THEN Append(cache.promiseFunctions, Thunk(f.component, hook))
                            ELSE cache.promiseFunctions]]
                /\ origin' =
                     IF IsCallable(f.component, hook)
                     THEN [origin EXCEPT ![hook] =
                             Append(@, [key |-> f.key, path |-> f.path,
                                        stale |-> hook \in f.stale])]
                     ELSE origin
                /\ calls' =
                     IF IsCallable(f.component, hook)
                     THEN calls \o CallsOnPush(f.component, hook)
                     ELSE calls
                /\ stack' =
                     IF HasComponents(f.component)
                     THEN Continue(ReplaceTop([f EXCEPT !.ci = 1]), hooks)
                     ELSE Continue(ReplaceTop([f EXCEPT !.hi = f.hi + 1]), hooks)
    /\ UNCHANGED <<inputs, hooks, pc, rootIndex, descents, invocations, previous>>

\* line 22: the next recursive(component.components[key], key)
Descend ==
    /\ pc = "walk"
    /\ stack # <<>>
    /\ Top.ci >= 1
    /\ Top.ci <= Len(Entries(Top.component))
    /\ Len(stack) < MaxDepth
    /\ LET f == Top
           entry == Entries(f.component)[f.ci]
       IN  stack' = Continue(Append(ReplaceTop([f EXCEPT !.ci = f.ci + 1]),
                                    Frame(entry[2], ChildKey(entry), Append(f.path, f.ci),
                                          f.stale \cup StaleFor(ChildKey(entry)))), hooks)
    /\ descents' = descents + 1
    /\ UNCHANGED <<inputs, hooks, hookCache, pc, rootIndex, origin, calls, invocations,
                   previous>>

\* line 28: return hookCache
Return ==
    /\ pc = "walk"
    /\ stack = <<>>
    /\ rootIndex = Len(matchedComponents)
    /\ pc' = "returned"
    /\ UNCHANGED <<inputs, hooks, hookCache, rootIndex, stack, origin, descents, calls,
                   invocations, previous>>

\* ------------------------------------------------------------- the caller

\* README lines 41-42: promiseFunctions.map(cb => cb()) runs the promise
\* functions of a hook name one after the other; this is its next cb()
InvokeThunk ==
    /\ pc = "returned"
    /\ invocations < MaxInvocations
    /\ \E h \in DOMAIN hookCache :
         LET i == Cardinality({k \in DOMAIN calls : calls[k].hook = h}) + 1
         IN  /\ i \in DOMAIN hookCache[h].promiseFunctions
             /\ calls' = Append(calls, CallOf(hookCache[h].promiseFunctions[i]))
    /\ invocations' = invocations + 1
    /\ UNCHANGED <<inputs, hooks, hookCache, pc, rootIndex, stack, origin, descents,
                   previous>>

\* README lines 108, 157: the function is called once per route transition; here
\* again for the same components, with the hook names in another order or with
\* one of them alone
CallAgain ==
    /\ pc = "returned"
    /\ ~previous.valid
    /\ hooks' \in (Rearrangements(hooks) \cup {<<h>> : h \in Range(hooks)}) \ {hooks}
    /\ previous' = [hooks |-> hooks, result |-> hookCache, valid |-> TRUE]
    /\ hookCache' = <<>>
    /\ pc' = "entry"
    /\ rootIndex' = 0
    /\ stack' = <<>>
    /\ origin' = <<>>
    /\ descents' = 0
    /\ calls' = <<>>
    /\ invocations' = 0
    /\ UNCHANGED inputs

Collect == InitCache \/ CallRoot \/ HookCallback \/ Descend \/ Return

Next == Collect \/ InvokeThunk \/ CallAgain

Spec == Init /\ [][Next]_vars

\* one call, which runs to completion (the function is synchronous), for every
\* shape of the component graph
FairInit == Init /\ objects \in {Graph(PlainNames, AllFunctions, m) : m \in Shapes}

FairSpec == FairInit /\ [][Collect]_vars /\ WF_vars(Collect)

\* ------------------------------------------------------------- properties

Returned == pc = "returned"

\* the components whose hook the thunks of hook name h call, in order
Contributors(cache, h) ==
    [i \in DOMAIN cache[h].promiseFunctions |-> cache[h].promiseFunctions[i].component]

\* p comes before q in a pre-order, left-to-right walk: p is a proper prefix of q,
\* or p turns left of q where they part
PathBefore(p, q) ==
    \/ Len(p) < Len(q) /\ \A k \in DOMAIN p : p[k] = q[k]
    \/ \E k \in DOMAIN p \cap DOMAIN q :
          /\ \A j \in 1..(k - 1) : p[j] = q[j]
          /\ p[k] < q[k]

\* the components reachable from the roots through components mappings
Reachable ==
    LET step(S) == S \cup UNION {{e[2] : e \in Range(Entries(c))} : c \in S}
        R0 == Range(matchedComponents)
    IN  step(step(step(R0)))

\* the component has a function under the hook name
Implements(c, h) == objects[c].props[h] = "function"

\* the component a call path leads to, and the traversal key it is reached with
RECURSIVE ComponentAt(_)
ComponentAt(p) ==
    IF Len(p) = 1
    THEN matchedComponents[p[1]]
    ELSE objects[ComponentAt(SubSeq(p, 1, Len(p) - 1))].components[p[Len(p)]][2]

KeyAt(p) ==
    IF Len(p) = 1
    THEN objects[matchedComponents[p[1]]].name
    ELSE objects[ComponentAt(SubSeq(p, 1, Len(p) - 1))].components[p[Len(p)]][1]

\* the call paths of at most n steps that exist in the component graph
RECURSIVE PathsUpTo(_)
PathsUpTo(n) ==
    IF n = 1
    THEN {<<i>> : i \in DOMAIN matchedComponents}
    ELSE LET P == PathsUpTo(n - 1)
         IN  P \cup UNION {{Append(p, j) : j \in DOMAIN objects[ComponentAt(p)].components} :
                              p \in {q \in P : Len(q) = n - 1}}

\* one step more than a path without a repeated component can have
Paths == PathsUpTo(Cardinality(Comps) + 1)

\* every root has a name, and no two places of the component graph have the same key
DistinctKeys ==
    /\ \A p \in Paths : KeyAt(p) # Undefined
    /\ \A p, q \in Paths : p # q => KeyAt(p) # KeyAt(q)

\* C1: in the returned mapping the thunks of each hook name are in pre-order,
\* left-to-right order of the visits that pushed them: roots in matchedComponents
\* order, a component before its descendants, children in mapping order.
C1_PreOrder ==
    Returned =>
        \A h \in DOMAIN origin :
            \A i, j \in DOMAIN origin[h] :
                i < j => PathBefore(origin[h][i].path, origin[h][j].path)

\* C2: in the returned mapping every root and every component reachable from a
\* root that has a callable h has a thunk in h's promiseFunctions.
C2_AllCollected ==
    Returned =>
        \A h \in DOMAIN hookCache :
            \A c \in Reachable :
                IsCallable(c, h) => c \in Range(Contributors(hookCache, h))

\* C3: for each hook name no key is recorded twice, no two thunks come from the
\* same key, and there are at most as many thunks as keys.
C3_OncePerKey ==
    \A h \in DOMAIN hookCache :
        /\ \A i, j \in DOMAIN hookCache[h].keys :
              i # j => hookCache[h].keys[i] # hookCache[h].keys[j]
        /\ \A i, j \in DOMAIN origin[h] :
              i # j => origin[h][i].key # origin[h][j].key
        /\ Len(origin[h]) = Len(hookCache[h].promiseFunctions)
        /\ Len(hookCache[h].promiseFunctions) <= Len(hookCache[h].keys)

\* C3 witness: the same named root was listed twice and gave one thunk
C3_Witness ==
    /\ Returned
    /\ Len(matchedComponents) = 2
    /\ matchedComponents[1] = matchedComponents[2]
    /\ RootKey(matchedComponents[1]) # Undefined
    /\ \E h \in DOMAIN hookCache :
          /\ IsCallable(matchedComponents[1], h)
          /\ Cardinality({i \in DOMAIN origin[h] :
                             origin[h][i].key = RootKey(matchedComponents[1])}) = 1

\* C4: two calls whose hooks arrays are permutations of each other return the
\* same thunk sequence for every hook name.
C4_OrderIrrelevant ==
    (Returned /\ previous.valid /\ hooks \in Rearrangements(previous.hooks)) =>
        \A h \in DOMAIN hookCache :
            Contributors(hookCache, h) = Contributors(previous.result, h)

\* C8: no thunk of hook name h is pushed by a visit that was reached with a key
\* already visited for h, nor by a visit below such a visit.
C8_SkipsSubtree ==
    \A h \in DOMAIN origin :
        \A i \in DOMAIN origin[h] : ~origin[h][i].stale

\* C5: the returned mapping has an entry for exactly the requested hook names,
\* and with no matched components every entry has no thunks.
C5_OneEntryPerHook ==
    Returned =>
        /\ DOMAIN hookCache = Range(hooks)
        /\ matchedComponents = <<>> =>
              \A h \in DOMAIN hookCache : hookCache[h].promiseFunctions = <<>>

\* C5 witness: a hook name was requested twice for components that implement it
C5_Witness ==
    /\ Returned
    /\ Len(hooks) = 2
    /\ hooks[1] = hooks[2]
    /\ hookCache[hooks[1]].promiseFunctions # <<>>
    /\ Cardinality(DOMAIN hookCache) = 1

\* C6: no hook implementation is called before the mapping is returned; after
\* that each thunk invocation makes one call, of the hook the thunk was pushed
\* for, with the store and route of the collection.
C6_Deferred ==
    /\ ~Returned => calls = <<>>
    /\ Len(calls) = invocations
    /\ \A k \in DOMAIN calls :
          /\ calls[k].store = store
          /\ calls[k].route = route
          /\ calls[k].hook \in DOMAIN hookCache
          /\ Implements(calls[k].component, calls[k].hook)
          /\ calls[k].component \in Range(Contributors(hookCache, calls[k].hook))

\* C6 witness: the caller has invoked a returned thunk
C6_Witness ==
    /\ Returned
    /\ invocations = 1
    /\ Len(calls) = 1

\* C7: a callback that runs for a component whose hook property is missing or not
\* a function pushes no thunk, records the key, and, when the component has
\* children, stands before the recursive() call for the first child.
C7_Malformed ==
    [][(/\ pc = "walk"
        /\ stack # <<>>
        /\ Top.ci = 0
        /\ Top.hi <= Len(hooks)
        /\ stack' # stack
        /\ Top.key \notin Range(hookCache[hooks[Top.hi]].keys)
        /\ ~Implements(Top.component, hooks[Top.hi]))
       =>
       LET h == hooks[Top.hi]
       IN  /\ hookCache'[h].promiseFunctions = hookCache[h].promiseFunctions
           /\ hookCache'[h].keys = Append(hookCache[h].keys, Top.key)
           /\ objects[Top.component].components # <<>> =>
                 stack' = [stack EXCEPT ![Len(stack)].ci = 1]]_vars

\* C7 witness: a thunk of h came from a child of a component whose h is not a function
C7_Witness ==
    /\ Returned
    /\ \E h \in DOMAIN origin :
          \E i \in DOMAIN origin[h] :
             LET p == origin[h][i].path
             IN  /\ Len(p) = 2
                 /\ objects[ComponentAt(<<p[1]>>)].props[h] = "other"
                 /\ \A j \in DOMAIN origin[h] : origin[h][j].path # <<p[1]>>

\* the (hook name, key) pairs recorded so far, and the largest components mapping
MarkedPairs ==
    {m \in (DOMAIN hookCache) \X Names : m[2] \in Range(hookCache[m[1]].keys)}

MaxFanout ==
    LET sizes == {Len(objects[c].components) : c \in Comps}
    IN  CHOOSE n \in sizes : \A m \in sizes : m <= n

\* C9: every call returns; the calls of recursive() for children number at most
\* the recorded (hook name, key) pairs times the largest components mapping, and
\* the nesting of recursive() stays below the cap.
C9_Terminates ==
    /\ [](descents <= Cardinality(MarkedPairs) * MaxFanout)
    /\ [](Len(stack) < MaxDepth)
    /\ (pc = "entry") ~> Returned

\* C9 witness: a call has returned after walking a component that is its own child
C9_Witness ==
    /\ Returned
    /\ descents > 0
    /\ \E i \in DOMAIN matchedComponents :
          \E e \in Range(objects[matchedComponents[i]].components) :
              e[2] = matchedComponents[i]

\* C10: when all traversal keys are distinct, at return the thunks of each hook
\* name come one each from exactly the places of the component graph whose
\* component implements the hook, and the contributing components are the same
\* as in a preceding call that requested the hook name with other names or alone.
C10_DistinctKeys ==
    (Returned /\ DistinctKeys) =>
        \A h \in DOMAIN hookCache :
            /\ {origin[h][i].path : i \in DOMAIN origin[h]}
                  = {p \in Paths : Implements(ComponentAt(p), h)}
            /\ Len(origin[h]) = Cardinality({p \in Paths : Implements(ComponentAt(p), h)})
            /\ \A i \in DOMAIN origin[h] :
                  hookCache[h].promiseFunctions[i].component = ComponentAt(origin[h][i].path)
            /\ (previous.valid /\ h \in DOMAIN previous.result) =>
                  Range(Contributors(hookCache, h)) = Range(Contributors(previous.result, h))

\* C10 witness: three components with distinct keys, two hook names requested
\* and then one of them alone
C10_Witness ==
    /\ Returned
    /\ DistinctKeys
    /\ previous.valid
    /\ Cardinality(Range(previous.hooks)) = 2
    /\ Len(hooks) = 1
    /\ Len(origin[hooks[1]]) = 3

====
